---- MODULE Spec2Model ----
(***************************************************************************)
(* Model of merkle.DefaultMerkleTree (src/merkle/merkle.go).               *)
(*                                                                         *)
(* Byte sequences are sequences of blocks.  A block is <<tag, payload>>:   *)
(* a raw byte has a letter tag and an empty payload, a digest has tag "h"  *)
(* and the hashed input as payload.  hashFn is therefore deterministic,    *)
(* fixed-size (one block) and collision-free, like the sha256Hash that     *)
(* main.go passes to NewDefaultMerkleTree; it returns a slice whose        *)
(* capacity equals its length, so append(a, b...) always copies.           *)
(***************************************************************************)
EXTENDS Integers, Sequences, FiniteSets, TLC

MaxLeaves == 4

NegIndex == 2

MaxIndex == 5

VARIABLES leaves, root, call

vars == <<leaves, root, call>>

-----------------------------------------------------------------------------
(* Byte slices                                                             *)

RawByte(tag) == <<tag, <<>>>>

hashFn(data) == << <<"h", data>> >>

NilBytes == [isNil |-> TRUE, bytes |-> <<>>]

Bytes(b) == [isNil |-> FALSE, bytes |-> b]

\* string(b): a nil slice and an empty slice convert to the same string
String(slice) == slice.bytes

\* mutant: an arithmetic shift, which rounds toward minus infinity
GoDivFloor(a, b) == a \div b

GoDiv(a, b) == IF a >= 0 THEN a \div b ELSE -((-a) \div b)

GoMod(a, b) == a - b * GoDiv(a, b)

\* mutant: index | 1
Xor1Or(i) == IF i % 2 = 0 THEN i + 1 ELSE i

\* index ^ 1 on a non-negative index
Xor1(i) == IF i % 2 = 0 THEN i + 1 ELSE i - 1

\* the leaf values a caller adds or presents: two distinct raw items, and an
\* item that is the concatenation of two digests
Data ==
    { <<RawByte("a")>>,
      <<RawByte("b")>>,
      hashFn(<<RawByte("a")>>) \o hashFn(<<RawByte("b")>>) }

-----------------------------------------------------------------------------
(* Nodes and tree construction                                             *)

NilNode == <<>>

MerkleNode(left, right, hash) == [Left |-> left, Right |-> right, Hash |-> hash]

\* NewDefaultMerkleTree: no leaves, nil root
NewDefaultMerkleTree == [leaves |-> <<>>, root |-> NilNode]

LeafLevel(ls) == [i \in 1..Len(ls) |-> MerkleNode(NilNode, NilNode, hashFn(ls[i]))]

\* mutant: an odd level is padded with an empty node instead of its last node
DuplicateLastPadsEmpty(nodes) ==
    IF Len(nodes) % 2 # 0
    THEN Append(nodes, [Left |-> <<>>, Right |-> <<>>, Hash |-> <<>>])
    ELSE nodes

DuplicateLast(nodes) ==
    IF Len(nodes) % 2 # 0 THEN Append(nodes, nodes[Len(nodes)]) ELSE nodes

\* mutant: the right hash is put before the left one
CombineSwapped(nodes) ==
    [k \in 1..(Len(nodes) \div 2) |->
        MerkleNode(<<nodes[2 * k - 1]>>, <<nodes[2 * k]>>,
                   hashFn(nodes[2 * k].Hash \o nodes[2 * k - 1].Hash))]

Combine(nodes) ==
    [k \in 1..(Len(nodes) \div 2) |->
        MerkleNode(<<nodes[2 * k - 1]>>, <<nodes[2 * k]>>,
                   hashFn(nodes[2 * k - 1].Hash \o nodes[2 * k].Hash))]

RECURSIVE BuildLoop(_)
BuildLoop(nodes) ==
    IF Len(nodes) > 1 THEN BuildLoop(Combine(DuplicateLast(nodes))) ELSE nodes

buildTree(t) ==
    LET nodes == LeafLevel(t.leaves)
    IN  IF Len(nodes) = 0
        THEN [t EXCEPT !.root = NilNode]
        ELSE [t EXCEPT !.root = <<BuildLoop(nodes)[1]>>]

\* mutant: the tree is not rebuilt
AddLeafNoRebuild(t, data) ==
    [t |-> [t EXCEPT !.leaves = Append(t.leaves, data)], err |-> ""]

AddLeaf(t, data) ==
    [t |-> buildTree([t EXCEPT !.leaves = Append(t.leaves, data)]), err |-> ""]

Root(t) == IF t.root = NilNode THEN NilBytes ELSE Bytes(t.root[1].Hash)

-----------------------------------------------------------------------------
(* Proof generation and verification                                       *)

ErrIndex == "index out of bounds"

RECURSIVE ProofLoop(_, _, _, _)
ProofLoop(level, numLeaves, index, proof) ==
    IF numLeaves > 1
    THEN LET lv == DuplicateLast(level)
             siblingIndex == Xor1(index)
             nextLevel == Combine(lv)
         IN  ProofLoop(nextLevel, Len(nextLevel), GoDiv(index, 2),
                       Append(proof, lv[siblingIndex + 1].Hash))
    ELSE proof

\* mutant: index > len(t.leaves) in the range check
GenerateProofOffByOne(t, index) ==
    IF index < 0 \/ index > Len(t.leaves)
    THEN [t |-> t, proof |-> <<>>, err |-> ErrIndex]
    ELSE [t |-> t,
          proof |-> ProofLoop(LeafLevel(t.leaves), Len(t.leaves), index, <<>>),
          err |-> ""]

\* mutant: the duplicate of an odd last leaf is appended to t.leaves itself
GenerateProofPadsLeaves(t, index) ==
    IF index < 0 \/ index >= Len(t.leaves)
    THEN [t |-> t, proof |-> <<>>, err |-> ErrIndex]
    ELSE [t |-> IF Len(t.leaves) % 2 # 0
                THEN [t EXCEPT !.leaves = Append(t.leaves, t.leaves[Len(t.leaves)])]
                ELSE t,
          proof |-> ProofLoop(LeafLevel(t.leaves), Len(t.leaves), index, <<>>),
          err |-> ""]

GenerateProof(t, index) ==
    IF index < 0 \/ index >= Len(t.leaves)
    THEN [t |-> t, proof |-> <<>>, err |-> ErrIndex]
    ELSE [t |-> t,
          proof |-> ProofLoop(LeafLevel(t.leaves), Len(t.leaves), index, <<>>),
          err |-> ""]

RECURSIVE VerifyLoop(_, _, _)
VerifyLoop(hash, index, proof) ==
    IF proof = <<>>
    THEN hash
    ELSE LET sibling == Head(proof)
             combined == IF GoMod(index, 2) = 0 THEN hash \o sibling ELSE sibling \o hash
         IN  VerifyLoop(hashFn(combined), GoDiv(index, 2), Tail(proof))

\* mutant: the current hash is always taken as the left child
RECURSIVE VerifyLoopAlwaysLeft(_, _)
VerifyLoopAlwaysLeft(hash, proof) ==
    IF proof = <<>>
    THEN hash
    ELSE VerifyLoopAlwaysLeft(hashFn(hash \o Head(proof)), Tail(proof))

VerifyProofAlwaysLeft(t, leaf, index, proof, expected) ==
    [t |-> t,
     valid |-> String(Bytes(VerifyLoopAlwaysLeft(hashFn(leaf), proof))) = String(expected)]

\* mutant: the lengths of the two hashes are compared, not their contents
VerifyProofComparesLength(t, leaf, index, proof, expected) ==
    [t |-> t,
     valid |-> Len(String(Bytes(VerifyLoop(hashFn(leaf), index, proof))))
                    = Len(String(expected))]

\* mutant: the loop stops one sibling early
VerifyProofSkipsLast(t, leaf, index, proof, expected) ==
    [t |-> t,
     valid |-> String(Bytes(VerifyLoop(hashFn(leaf), index,
                                       SubSeq(proof, 1, Len(proof) - 1))))
                    = String(expected)]

VerifyProof(t, leaf, index, proof, expected) ==
    [t |-> t,
     valid |-> String(Bytes(VerifyLoop(hashFn(leaf), index, proof))) = String(expected)]

-----------------------------------------------------------------------------
(* The caller's inputs                                                     *)

Indices == (0 - NegIndex)..MaxIndex

\* sibling hashes a caller may substitute or append
Pool == {hashFn(d) : d \in Data}

Genuine(t) == {GenerateProof(t, i).proof : i \in 0..(Len(t.leaves) - 1)}

\* p with one sibling hash replaced
Tampered(p) == {[p EXCEPT ![k] = x] : k \in 1..Len(p), x \in Pool} \ {p}

\* p cut short, or with one more sibling hash
Resized(p) ==
    {SubSeq(p, 1, k) : k \in 0..(Len(p) - 1)} \cup {Append(p, x) : x \in Pool}

\* the <<leaf, index, proof>> triples a caller presents to VerifyProof: any
\* leaf and index with a generated proof, the right leaf and index with a
\* tampered proof, any leaf and index with a proof of the wrong length
VerifyInputs(t) ==
    {<<leaf, index, p>> : leaf \in Data, index \in Indices, p \in Genuine(t)}
    \cup UNION {{<<t.leaves[i + 1], i, q>> : q \in Tampered(GenerateProof(t, i).proof)} :
                    i \in 0..(Len(t.leaves) - 1)}
    \cup {<<leaf, index, q>> :
            leaf \in Data, index \in Indices,
            q \in UNION {Resized(p) : p \in Genuine(t) \cup {<<>>}}}

-----------------------------------------------------------------------------------------------------------------------------------------------------
(* The state machine: one tree, and a caller that makes one call at a time *)
(* and keeps the arguments and results of the call it made last.           *)

tree == [leaves |-> leaves, root |-> root]

NoCall ==
    [op |-> "None", leaf |-> <<>>, index |-> 0, proof |-> <<>>, expected |-> NilBytes,
     bytes |-> NilBytes, err |-> "", valid |-> FALSE, before |-> NewDefaultMerkleTree]

Init ==
    /\ leaves = NewDefaultMerkleTree.leaves
    /\ root = NewDefaultMerkleTree.root
    /\ call = NoCall

DoAddLeaf ==
    /\ call.op = "None"
    /\ Len(leaves) < MaxLeaves
    /\ \E data \in Data :
           LET r == AddLeaf(tree, data)
           IN  /\ leaves' = r.t.leaves
               /\ root' = r.t.root
               /\ call' = [NoCall EXCEPT !.op = "AddLeaf", !.leaf = data,
                                         !.err = r.err, !.before = tree]

DoRoot ==
    /\ call.op = "None"
    /\ call' = [NoCall EXCEPT !.op = "Root", !.bytes = Root(tree), !.before = tree]
    /\ UNCHANGED <<leaves, root>>

DoGenerateProof ==
    /\ call.op = "None"
    /\ \E index \in Indices :
           LET r == GenerateProof(tree, index)
           IN  /\ leaves' = r.t.leaves
               /\ root' = r.t.root
               /\ call' = [NoCall EXCEPT !.op = "GenerateProof", !.index = index,
                                         !.proof = r.proof, !.err = r.err,
                                         !.before = tree]

DoVerifyProof ==
    /\ call.op = "None"
    /\ \E in \in VerifyInputs(tree) :
           LET r == VerifyProof(tree, in[1], in[2], in[3], Root(tree))
           IN  /\ leaves' = r.t.leaves
               /\ root' = r.t.root
               /\ call' = [NoCall EXCEPT !.op = "VerifyProof", !.leaf = in[1],
                                         !.index = in[2], !.proof = in[3],
                                         !.expected = Root(tree), !.valid = r.valid,
                                         !.before = tree]

\* the caller moves on to its next call
Resume ==
    /\ call.op # "None"
    /\ call' = NoCall
    /\ UNCHANGED <<leaves, root>>

Next == DoAddLeaf \/ DoRoot \/ DoGenerateProof \/ DoVerifyProof \/ Resume

Spec == Init /\ [][Next]_vars

-----------------------------------------------------------------------------
(* Reference definitions used to state the properties                      *)

n == Len(leaves)

ValidIndex(i) == i >= 0 /\ i < n

Proof(i) == GenerateProof(tree, i).proof

\* least d with 2^d >= k
CeilLog2(k) == CHOOSE d \in 0..k : 2 ^ d >= k /\ (d = 0 \/ 2 ^ (d - 1) < k)

RefPad(hs) == IF Len(hs) % 2 = 1 THEN hs \o <<hs[Len(hs)]>> ELSE hs

RefPairs(hs) == [k \in 1..(Len(hs) \div 2) |-> hashFn(hs[2 * k - 1] \o hs[2 * k])]

\* the hashes of level k (level 0 is the leaf level), before duplication
RECURSIVE RefLevel(_, _)
RefLevel(ls, k) ==
    IF k = 0
    THEN [i \in 1..Len(ls) |-> hashFn(ls[i])]
    ELSE RefPairs(RefPad(RefLevel(ls, k - 1)))

RefRoot(ls) == RefLevel(ls, CeilLog2(Len(ls)))[1]

\* the hash of the node on leaf i's path at level k
PathHash(ls, i, k) == RefLevel(ls, k)[(i \div (2 ^ k)) + 1]

\* which side VerifyProof takes at level k for index j: 0 left, 1 right
\* (j is halved k times, truncating toward zero)
Side(j, k) == ((IF j >= 0 THEN j ELSE 0 - j) \div (2 ^ k)) % 2

IsHash(block) == block[1] = "h"

\* the byte sequence is the concatenation of two hash values
TwoHashes(bs) == Len(bs) = 2 /\ IsHash(bs[1]) /\ IsHash(bs[2])

\* the byte sequence begins or ends with a hash value
EdgeHash(bs) == Len(bs) >= 1 /\ (IsHash(bs[1]) \/ IsHash(bs[Len(bs)]))

DiffersInOne(p, q) ==
    /\ Len(p) = Len(q)
    /\ Cardinality({k \in 1..Len(p) : p[k] # q[k]}) = 1

Verified == call.op = "VerifyProof" /\ call.expected = Root(tree)

-----------------------------------------------------------------------------
(* Properties                                                              *)

\* C1: round trip. In a tree with at least one leaf, VerifyProof of the i-th
\* leaf, its index i, the proof GenerateProof(i) returns and Root() is true.
C1_RoundTrip ==
    (/\ Verified
     /\ ValidIndex(call.index)
     /\ call.leaf = leaves[call.index + 1]
     /\ call.proof = Proof(call.index))
    => call.valid

C1_Witness ==
    /\ Verified
    /\ n = 3
    /\ call.index = 2
    /\ call.leaf = leaves[3]
    /\ call.proof = Proof(2)
    /\ call.valid

\* C2: Root() is the nil value with no leaves, and otherwise the reference
\* root of the current leaf list, in every state and so right after AddLeaf.
C2_RootIsReference ==
    /\ n = 0 => Root(tree) = NilBytes
    /\ n >= 1 => Root(tree) = Bytes(RefRoot(leaves))
    /\ call.op = "Root" => call.bytes = Root(tree)

C2_Witness ==
    /\ call.op = "AddLeaf"
    /\ n = 3
    /\ Root(tree) = Bytes(RefRoot(leaves))
    /\ Root(tree) # NilBytes

\* C3: tamper detection of content. With the generated proof and the right
\* index, any other leaf value is rejected; with the right leaf and index, a
\* proof that differs from the generated one in exactly one sibling hash is
\* rejected.
C3_TamperContent ==
    (Verified /\ ValidIndex(call.index))
    => /\ (call.proof = Proof(call.index) /\ call.leaf # leaves[call.index + 1])
            => ~call.valid
       /\ (call.leaf = leaves[call.index + 1]
            /\ DiffersInOne(call.proof, Proof(call.index)))
            => ~call.valid

C3_Witness ==
    /\ Verified
    /\ n >= 3
    /\ ValidIndex(call.index)
    /\ call.leaf = leaves[call.index + 1]
    /\ DiffersInOne(call.proof, Proof(call.index))
    /\ call.proof[2] # Proof(call.index)[2]
    /\ ~call.valid

\* the valid indices whose leaf and generated proof the last VerifyProof call
\* presented
Presented == {i \in 0..(n - 1) : call.leaf = leaves[i + 1] /\ call.proof = Proof(i)}

\* at some level of the proof, index j takes the other side than i does and
\* the sibling hash there differs from the hash of the node on i's path
Detectable(i, j) ==
    \E k \in 0..(Len(Proof(i)) - 1) :
        /\ Side(j, k) # Side(i, k)
        /\ Proof(i)[k + 1] # PathHash(leaves, i, k)

\* C4 as stated: the i-th leaf and its generated proof, presented with any
\* index j other than i, are rejected.
C4_WrongIndexRejected ==
    Verified => \A i \in Presented : call.index # i => ~call.valid

\* C4 as amended: the i-th leaf and its generated proof, presented with index
\* j, are rejected exactly when at some level k of the proof j (halved k
\* times, truncating toward zero) has the other parity than i and the sibling
\* hash at that level differs from the hash of the node on i's path.
C4_WrongIndexRejectedWhenDetectable ==
    Verified => \A i \in Presented : ~call.valid <=> Detectable(i, call.index)

C4_Witness ==
    /\ Verified
    /\ n >= 3
    /\ \E i \in Presented : call.index # i /\ call.index >= 0 /\ ~call.valid
    /\ \E i \in Presented : Detectable(i, call.index)

\* the number of levels below the root of the current tree
Depth == CeilLog2(n)

\* C5 as stated: with at least one leaf and Root() as the expected root,
\* VerifyProof is false whenever the index is negative or the proof is
\* shorter or longer than the tree depth.
C5_MalformedRejected ==
    (Verified /\ n >= 1 /\ (call.index < 0 \/ Len(call.proof) # Depth))
    => ~call.valid

\* C5 as amended: VerifyProof returns a boolean, and it is false whenever the
\* proof is shorter or longer than the tree depth, for every index, provided
\* the presented leaf is not the concatenation of two hash values and no leaf
\* of the tree begins or ends with a hash value.
C5_WrongLengthRejectedOnRawLeaves ==
    /\ call.valid \in BOOLEAN
    /\ (/\ Verified
        /\ n >= 1
        /\ Len(call.proof) # Depth
        /\ ~TwoHashes(call.leaf)
        /\ \A i \in 1..n : ~EdgeHash(leaves[i]))
       => ~call.valid

C5_Witness ==
    /\ Verified
    /\ n >= 2
    /\ Len(call.proof) > Depth
    /\ call.index < 0
    /\ ~TwoHashes(call.leaf)
    /\ \A i \in 1..n : ~EdgeHash(leaves[i])
    /\ ~call.valid

\* C6: GenerateProof fails with the index error and no proof exactly when the
\* index is negative or not below the leaf count, succeeds otherwise, and a
\* failing call leaves the leaf list and the root as they were.
C6_IndexOutOfRange ==
    call.op = "GenerateProof"
    => /\ call.err = ErrIndex <=> (call.index < 0 \/ call.index >= Len(call.before.leaves))
       /\ call.err # ErrIndex => call.err = ""
       /\ call.err = ErrIndex => (call.proof = <<>> /\ tree = call.before)

C6_Witness ==
    /\ call.op = "GenerateProof"
    /\ n = 2
    /\ call.index = 2
    /\ call.err = ErrIndex
    /\ tree = call.before

\* C7 as stated: adding a copy of the last leaf to a tree with an odd number
\* n >= 1 of leaves leaves Root() as it was.
C7_OddDuplicateKeepsRoot ==
    (/\ call.op = "AddLeaf"
     /\ Len(call.before.leaves) % 2 = 1
     /\ call.leaf = call.before.leaves[Len(call.before.leaves)])
    => Root(tree) = Root(call.before)

\* C7 as amended: adding a copy of the last leaf to a tree with an odd number
\* n >= 3 of leaves leaves Root() as it was.
C7_OddDuplicateKeepsRootFromThree ==
    (/\ call.op = "AddLeaf"
     /\ Len(call.before.leaves) % 2 = 1
     /\ Len(call.before.leaves) >= 3
     /\ call.leaf = call.before.leaves[Len(call.before.leaves)])
    => Root(tree) = Root(call.before)

C7_Witness ==
    /\ call.op = "AddLeaf"
    /\ n = 4
    /\ leaves[1] # leaves[2]
    /\ leaves[4] = leaves[3]
    /\ Root(tree) = Root(call.before)

\* C8: a successful GenerateProof(i) on n leaves returns ceil(log2(n)) sibling
\* hashes, the k-th being the hash at position floor(i / 2^k) XOR 1 of level k
\* after duplication of an odd last node; one leaf gives the empty proof.
C8_ProofShape ==
    (call.op = "GenerateProof" /\ call.err = "")
    => /\ Len(call.proof) = CeilLog2(n)
       /\ \A k \in 0..(Len(call.proof) - 1) :
            LET pos == call.index \div (2 ^ k)
                sib == IF pos % 2 = 0 THEN pos + 1 ELSE pos - 1
            IN  call.proof[k + 1] = RefPad(RefLevel(leaves, k))[sib + 1]
       /\ n = 1 => call.proof = <<>>

C8_Witness ==
    /\ call.op = "GenerateProof"
    /\ call.err = ""
    /\ n = 3
    /\ call.index = 2
    /\ Len(call.proof) = 2
    /\ call.proof[1] = hashFn(leaves[3])

C10_ReadOnlyQueries ==
    [][/\ call'.op \in {"Root", "GenerateProof", "VerifyProof"}
            => (leaves' = leaves /\ root' = root)
       /\ call'.op = "AddLeaf"
            => (leaves' = Append(leaves, call'.leaf)
                /\ \A i \in 1..Len(leaves) : leaves'[i] = leaves[i])
       /\ root' # root => call'.op = "AddLeaf"]_vars

C10_Witness ==
    /\ call.op = "GenerateProof"
    /\ call.err = ""
    /\ n = 3
    /\ tree = call.before

====
